---- MODULE Spec2Model ----
(***************************************************************************)
(* Model of the curved-panel pallet stacker (src/app/page.tsx): the metric *)
(* calculator (computeArea, computeCurvatureScore), the stack sorter       *)
(* (sortPanelsForStack) and the pallet partitioner                         *)
(* (groupPanelsIntoPallets).                                               *)
(*                                                                         *)
(* Numbers.  The source computes in IEEE doubles; the model computes in    *)
(* exact arithmetic.  length, width and angleDeg are integers.  radius is  *)
(* an integer count of half-epsilons (0.5e-6), so that the literal 1e-6 of *)
(* computeCurvatureScore is Eps = 2 and a radius of 1 is a nonzero radius  *)
(* smaller than the floor.  A curvature score is a fraction                *)
(* [num, den] with den > 0; Math.PI is the fraction PiNum / PiDen.         *)
(***************************************************************************)
EXTENDS Integers, Sequences, FiniteSets, TLC

\* ------------------------------------------------------------------------
\* Bounds of the model
\* ------------------------------------------------------------------------

\* the largest number of panels in an input list; ids are 1..MaxPanels
MaxPanels == 3

\* the largest palletCount passed to groupPanelsIntoPallets
MaxPalletCount == 4

\* ------------------------------------------------------------------------
\* Program constants
\* ------------------------------------------------------------------------

\* the literal 1e-6, in radius units of 0.5e-6
Eps == 2

\* Math.PI as the fraction PiNum / PiDen
PiNum == 355
PiDen == 113

\* ------------------------------------------------------------------------
\* Panels
\* ------------------------------------------------------------------------

\* The dimensions a panel is drawn with.  They cover: a zero radius (the
\* floor), a nonzero radius below the floor, a negative radius and angle, a
\* zero angle, negative lengths and widths, equal scores from different
\* (radius, angle), equal areas from different (length, width), and equal and
\* distinct lengths.
Shapes ==
    { [label |-> "a", length |-> 2,  width |-> 1,  radius |-> 0,  angleDeg |-> 1],
      [label |-> "b", length |-> 1,  width |-> 2,  radius |-> -4, angleDeg |-> -2],
      [label |-> "c", length |-> 2,  width |-> 2,  radius |-> 1,  angleDeg |-> 1],
      [label |-> "d", length |-> -1, width |-> -1, radius |-> 4,  angleDeg |-> 0],
      [label |-> "e", length |-> 3,  width |-> -1, radius |-> 0,  angleDeg |-> 0] }

Ids == 1..MaxPanels

\* type Panel
Panel ==
    { [id |-> n, label |-> s.label, length |-> s.length, width |-> s.width,
       radius |-> s.radius, angleDeg |-> s.angleDeg] : n \in Ids, s \in Shapes }

\* the panel lists the functions are called with: every order of every choice
\* of at most MaxPanels panels with pairwise distinct ids
PanelLists ==
    UNION { { l \in [1..n -> Panel] :
                \A j, k \in 1..n : j # k => l[j].id # l[k].id } : n \in 0..MaxPanels }

PalletCounts == (-1)..MaxPalletCount

\* ------------------------------------------------------------------------
\* Arithmetic
\* ------------------------------------------------------------------------

\* Math.abs on integers
Abs(x) == IF x < 0 THEN -x ELSE x

Min(a, b) == IF a < b THEN a ELSE b

\* the sign of a number: all that Array.prototype.sort reads of a comparator
Sign(x) == IF x < 0 THEN -1 ELSE IF x > 0 THEN 1 ELSE 0

\* fractions num / den with den > 0
Frac(n, d) == [num |-> n, den |-> d]

\* a / b of two fractions, for b > 0
FracDiv(a, b) == Frac(a.num * b.den, a.den * b.num)

\* a !== b on fractions
FracNeq(a, b) == a.num * b.den # b.num * a.den

\* the sign of a - b on fractions
FracSub(a, b) == Sign(a.num * b.den - b.num * a.den)

\* ------------------------------------------------------------------------
\* Metric calculator
\* ------------------------------------------------------------------------

computeArea(panel) == panel.length * panel.width

\* computeCurvatureScore without Math.abs on the radius
computeCurvatureScoreSignedRadius(panel) ==
    LET radius   == IF panel.radius # 0 THEN panel.radius ELSE Eps
        angleRad == Frac(Abs(panel.angleDeg) * PiNum, 180 * PiDen)
    IN  FracDiv(angleRad, Frac(radius, 1))

\* computeCurvatureScore without the floor: a zero radius divides by zero
computeCurvatureScoreNoFloor(panel) ==
    LET radius   == Abs(panel.radius)
        angleRad == Frac(Abs(panel.angleDeg) * PiNum, 180 * PiDen)
    IN  FracDiv(angleRad, Frac(radius, 1))

\* computeCurvatureScore without Math.abs on the angle
computeCurvatureScoreSignedAngle(panel) ==
    LET radius   == IF Abs(panel.radius) # 0 THEN Abs(panel.radius) ELSE Eps
        angleRad == Frac(panel.angleDeg * PiNum, 180 * PiDen)
    IN  FracDiv(angleRad, Frac(radius, 1))

computeCurvatureScore(panel) ==
    LET radius   == IF Abs(panel.radius) # 0 THEN Abs(panel.radius) ELSE Eps
        angleRad == Frac(Abs(panel.angleDeg) * PiNum, 180 * PiDen)
    IN  FracDiv(angleRad, Frac(radius, 1))

\* ------------------------------------------------------------------------
\* Array.prototype.sort and Array.prototype.slice
\* ------------------------------------------------------------------------

\* the set of elements of a sequence
Range(s) == { s[k] : k \in 1..Len(s) }

\* A comparator is passed to the sort as the function cmp[a, b] of the pairs
\* of elements the sort may compare.

\* insert x into the sorted run: after the last element that does not compare
\* greater than x, which keeps equal elements in their order of arrival
\* SortInsert of an unstable sort: x goes before the elements it compares
\* equal to
SortInsertBeforeEqual(run, x, cmp) ==
    LET before == { j \in 1..Len(run) : cmp[run[j], x] < 0 }
        pos    == IF before = {} THEN 0
                  ELSE CHOOSE j \in before : \A k \in before : k <= j
    IN  SubSeq(run, 1, pos) \o <<x>> \o SubSeq(run, pos + 1, Len(run))

SortInsert(run, x, cmp) ==
    LET notAfter == { j \in 1..Len(run) : cmp[run[j], x] <= 0 }
        pos      == IF notAfter = {} THEN 0
                    ELSE CHOOSE j \in notAfter : \A k \in notAfter : k <= j
    IN  SubSeq(run, 1, pos) \o <<x>> \o SubSeq(run, pos + 1, Len(run))

\* arr.sort(cmp): the stable (insertion) sort of arr by the comparator
ArraySort(arr, cmp) ==
    LET run[k \in 0..Len(arr)] ==
            IF k = 0 THEN <<>> ELSE SortInsert(run[k - 1], arr[k], cmp)
    IN  run[Len(arr)]

\* arr.slice(from, size): the second argument taken for a count
ArraySliceByCount(arr, from, to) == SubSeq(arr, from + 1, Min(to - from, Len(arr)))

\* arr.slice(from, to) for 0 <= from <= to: to is clamped to the length
ArraySlice(arr, from, to) == SubSeq(arr, from + 1, Min(to, Len(arr)))

\* ------------------------------------------------------------------------
\* Stack sorter
\* ------------------------------------------------------------------------

\* stackComparator with the area compared the wrong way round
stackComparatorAreaAscending(a, b) ==
    LET curvA == computeCurvatureScore(a)
        curvB == computeCurvatureScore(b)
        areaA == computeArea(a)
        areaB == computeArea(b)
    IN  IF FracNeq(curvA, curvB) THEN FracSub(curvA, curvB)
        ELSE IF areaA # areaB THEN areaA - areaB
        ELSE a.id - b.id

\* stackComparator without the final comparison of ids
stackComparatorNoId(a, b) ==
    LET curvA == computeCurvatureScore(a)
        curvB == computeCurvatureScore(b)
        areaA == computeArea(a)
        areaB == computeArea(b)
    IN  IF FracNeq(curvA, curvB) THEN FracSub(curvA, curvB)
        ELSE IF areaA # areaB THEN areaB - areaA
        ELSE 0

\* stackComparator written as "curvA < curvB ? -1 : 1": it never answers 0
stackComparatorNeverZero(a, b) ==
    LET curvA == computeCurvatureScore(a)
        curvB == computeCurvatureScore(b)
    IN  IF FracSub(curvA, curvB) < 0 THEN -1 ELSE 1

\* the comparator of sortPanelsForStack
stackComparator(a, b) ==
    LET curvA == computeCurvatureScore(a)
        curvB == computeCurvatureScore(b)
        areaA == computeArea(a)
        areaB == computeArea(b)
    IN  IF FracNeq(curvA, curvB) THEN FracSub(curvA, curvB)
        ELSE IF areaA # areaB THEN areaB - areaA
        ELSE a.id - b.id

\* sortPanelsForStack copying with panels.slice(1) instead of [...panels]
sortPanelsForStackSliced(list) ==
    ArraySort(ArraySlice(list, 1, Len(list)),
              [a \in Range(list), b \in Range(list) |-> stackComparator(a, b)])

sortPanelsForStack(list) ==
    ArraySort(list, [a \in Range(list), b \in Range(list) |-> stackComparator(a, b)])

\* ------------------------------------------------------------------------
\* Pallet partitioner: comparators
\* ------------------------------------------------------------------------

\* lengthComparator the wrong way round: shortest first
lengthComparatorAscending(a, b) == a.length - b.length

\* lengthComparator with the typo "b.length - b.length": nothing is sorted
lengthComparatorSameOperand(a, b) == b.length - b.length

\* the comparator of step 1: length descending
lengthComparator(a, b) == b.length - a.length

\* sliceComparator with the area compared the wrong way round
sliceComparatorAreaAscending(a, b) ==
    LET curvA == computeCurvatureScore(a)
        curvB == computeCurvatureScore(b)
        areaA == computeArea(a)
        areaB == computeArea(b)
    IN  IF FracNeq(curvA, curvB) THEN FracSub(curvA, curvB)
        ELSE IF areaA # areaB THEN areaA - areaB
        ELSE a.id - b.id

\* the comparator applied to each slice
sliceComparator(a, b) ==
    LET curvA == computeCurvatureScore(a)
        curvB == computeCurvatureScore(b)
        areaA == computeArea(a)
        areaB == computeArea(b)
    IN  IF FracNeq(curvA, curvB) THEN FracSub(curvA, curvB)
        ELSE IF areaA # areaB THEN areaB - areaA
        ELSE a.id - b.id

\* ------------------------------------------------------------------------
\* State
\* ------------------------------------------------------------------------

VARIABLES
    pc,            \* where the caller is
    panels,        \* the panel list passed to the functions
    sortedPanels,  \* the result of sortPanelsForStack(panels)
    resorted,      \* the result of sortPanelsForStack(sortedPanels)
    rows,          \* the result of buildExportRows(sortedPanels)
    palletCount,   \* groupPanelsIntoPallets: the argument
    byLength,      \* groupPanelsIntoPallets: the panels, longest first
    baseSize,      \* groupPanelsIntoPallets: floor(total / palletCount)
    remainder,     \* groupPanelsIntoPallets: buckets still owed one more panel
    index,         \* groupPanelsIntoPallets: start of the next slice
    i,             \* groupPanelsIntoPallets: the loop counter
    buckets,       \* groupPanelsIntoPallets: every slice built so far, in order
    pallets,       \* groupPanelsIntoPallets: the result
    nextId,        \* the page: the id the next new panel gets
    csvText        \* the page: the text of the CSV box, as lines of cells

sortVars  == <<sortedPanels, resorted, rows>>
groupVars == <<palletCount, byLength, baseSize, remainder, index, i, buckets, pallets>>
appVars   == <<nextId, csvText>>
vars      == <<pc, panels, sortVars, groupVars, appVars>>

Init ==
    /\ pc = "idle"
    /\ panels \in PanelLists
    /\ sortedPanels = <<>>
    /\ resorted = <<>>
    /\ rows = <<>>
    /\ palletCount = 0
    /\ byLength = <<>>
    /\ baseSize = 0
    /\ remainder = 0
    /\ index = 0
    /\ i = 0
    /\ buckets = <<>>
    /\ pallets = <<>>
    /\ nextId = 3
    /\ csvText = <<<<"">>>>

\* ------------------------------------------------------------------------
\* Calls of the stack sorter
\* ------------------------------------------------------------------------

\* the call with "panels.sort(...)" in place of "[...panels].sort(...)": the
\* caller's list is sorted too
SortPanelsForStackInPlace ==
    /\ pc = "idle"
    /\ sortedPanels' = sortPanelsForStack(panels)
    /\ panels' = sortPanelsForStack(panels)
    /\ pc' = "sorted"
    /\ UNCHANGED <<appVars, resorted, rows, groupVars>>

\* sortedPanels = sortPanelsForStack(panels)
SortPanelsForStack ==
    /\ pc = "idle"
    /\ sortedPanels' = sortPanelsForStack(panels)
    /\ pc' = "sorted"
    /\ UNCHANGED <<appVars, panels, resorted, rows, groupVars>>

\* the sorter applied to its own result
SortAgain ==
    /\ pc = "sorted"
    /\ resorted' = sortPanelsForStack(sortedPanels)
    /\ pc' = "resorted"
    /\ UNCHANGED <<appVars, panels, sortedPanels, rows, groupVars>>

\* buildExportRows(sortedPanels)
buildExportRows(list) ==
    [k \in 1..Len(list) |->
        [stackPosition  |-> k,
         label          |-> list[k].label,
         length         |-> list[k].length,
         width          |-> list[k].width,
         radius         |-> list[k].radius,
         angleDeg       |-> list[k].angleDeg,
         area           |-> computeArea(list[k]),
         curvatureScore |-> computeCurvatureScore(list[k])]]

BuildExportRows ==
    /\ pc = "sorted"
    /\ Len(sortedPanels) # 0
    /\ rows' = buildExportRows(sortedPanels)
    /\ pc' = "exported"
    /\ UNCHANGED <<appVars, panels, sortedPanels, resorted, groupVars>>

\* ------------------------------------------------------------------------
\* groupPanelsIntoPallets(panels, n)
\* ------------------------------------------------------------------------

\* the early return handing back one pallet holding the whole input
GroupReturnEmptyOnePallet(n) ==
    /\ pc = "idle"
    /\ n <= 0 \/ Len(panels) = 0
    /\ palletCount' = n
    /\ pallets' = <<panels>>
    /\ pc' = "grouped"
    /\ UNCHANGED <<appVars, panels, sortVars, byLength, baseSize, remainder, index, i, buckets>>

\* the early return: no pallets
GroupReturnEmpty(n) ==
    /\ pc = "idle"
    /\ n <= 0 \/ Len(panels) = 0
    /\ palletCount' = n
    /\ pallets' = <<>>
    /\ pc' = "grouped"
    /\ UNCHANGED <<appVars, panels, sortVars, byLength, baseSize, remainder, index, i, buckets>>

\* the sort by length and the set-up of the loop
GroupBegin(n) ==
    /\ pc = "idle"
    /\ ~(n <= 0 \/ Len(panels) = 0)
    /\ palletCount' = n
    /\ byLength' = ArraySort(panels, [a \in Range(panels), b \in Range(panels) |->
                                          lengthComparator(a, b)])
    /\ baseSize' = Len(panels) \div n
    /\ remainder' = Len(panels) % n
    /\ pallets' = <<>>
    /\ index' = 0
    /\ i' = 0
    /\ buckets' = <<>>
    /\ pc' = "loop"
    /\ UNCHANGED <<appVars, panels, sortVars>>

\* sliceSize testing "remainder >= 0": every slice gets the extra panel
sliceSizeAlwaysExtra(base, rem) == base + (IF rem >= 0 THEN 1 ELSE 0)

\* the size of the next slice: one more than baseSize while remainder lasts
sliceSize(base, rem) == base + (IF rem > 0 THEN 1 ELSE 0)

\* pushSlice without the test for an empty slice
pushSliceAlways(result, slice) == Append(result, slice)

\* a slice is pushed onto the result only if it is not empty
pushSlice(result, slice) == IF Len(slice) > 0 THEN Append(result, slice) ELSE result

\* one iteration of the loop: cut the next slice, sort it, keep it if non-empty
GroupIterate ==
    /\ pc = "loop"
    /\ i < palletCount
    /\ LET size  == sliceSize(baseSize, remainder)
           cut   == ArraySlice(byLength, index, index + size)
           slice == ArraySort(cut, [a \in Range(cut), b \in Range(cut) |->
                                       sliceComparator(a, b)])
       IN  /\ remainder' = IF remainder > 0 THEN remainder - 1 ELSE remainder
           /\ index' = index + size
           /\ buckets' = Append(buckets, slice)
           /\ pallets' = pushSlice(pallets, slice)
    /\ i' = i + 1
    /\ UNCHANGED <<appVars, pc, panels, sortVars, palletCount, byLength, baseSize>>

\* the loop is over: return pallets
GroupReturn ==
    /\ pc = "loop"
    /\ ~(i < palletCount)
    /\ pc' = "grouped"
    /\ UNCHANGED <<appVars, panels, sortVars, groupVars>>

\* groupPanelsIntoPallets(list, n) as one function: the early return, the sort
\* by length, and loop[k], the locals after k iterations of the loop
groupPanelsIntoPallets(list, n) ==
    IF n <= 0 \/ Len(list) = 0 THEN <<>>
    ELSE
        LET sortedByLength ==
                ArraySort(list, [a \in Range(list), b \in Range(list) |->
                                    lengthComparator(a, b)])
            total == Len(sortedByLength)
            base  == total \div n
            loop[k \in 0..n] ==
                IF k = 0
                THEN [remainder |-> total % n, index |-> 0, pallets |-> <<>>]
                ELSE
                    LET prev  == loop[k - 1]
                        size  == sliceSize(base, prev.remainder)
                        cut   == ArraySlice(sortedByLength, prev.index, prev.index + size)
                        slice == ArraySort(cut, [a \in Range(cut), b \in Range(cut) |->
                                                    sliceComparator(a, b)])
                    IN  [remainder |-> IF prev.remainder > 0
                                       THEN prev.remainder - 1 ELSE prev.remainder,
                         index     |-> prev.index + size,
                         pallets   |-> pushSlice(prev.pallets, slice)]
        IN  loop[n].pallets

Next ==
    \/ SortPanelsForStack
    \/ SortAgain
    \/ BuildExportRows
    \/ \E n \in PalletCounts : GroupReturnEmpty(n)
    \/ \E n \in PalletCounts : GroupBegin(n)
    \/ GroupIterate
    \/ GroupReturn

Spec == Init /\ [][Next]_vars

\* ------------------------------------------------------------------------
\* The page: panels, nextId and csvText under the edit handlers
\* ------------------------------------------------------------------------

\* the largest value nextId is followed to
MaxNextId == 5

\* the number 1 in the unit radius is counted in (1e-6 is Eps)
OneInRadiusUnits == Eps * 1000000

\* String.prototype.trim on the cells the model types
Trim(s) ==
    CASE s = " "        -> ""
      [] s = " p "      -> "p"
      [] s = " 3 "      -> "3"
      [] s = " Radius " -> "Radius"
      [] OTHER          -> s

\* String.prototype.toLowerCase on the cells the model types
ToLowerCase(s) ==
    CASE s = "angleDeg" -> "angledeg"
      [] s = "AngleDeg" -> "angledeg"
      [] s = "Radius"   -> "radius"
      [] s = "WIDTH"    -> "width"
      [] OTHER          -> s

\* Number(value): white space around the numeral is ignored, the empty
\* string is 0, "Infinity" is not finite and any other text is NaN
Number(value) ==
    LET t == Trim(value)
    IN  CASE t = ""         -> [finite |-> TRUE,  nan |-> FALSE, n |-> 0]
          [] t = "0"        -> [finite |-> TRUE,  nan |-> FALSE, n |-> 0]
          [] t = "1"        -> [finite |-> TRUE,  nan |-> FALSE, n |-> 1]
          [] t = "2"        -> [finite |-> TRUE,  nan |-> FALSE, n |-> 2]
          [] t = "3"        -> [finite |-> TRUE,  nan |-> FALSE, n |-> 3]
          [] t = "-1"       -> [finite |-> TRUE,  nan |-> FALSE, n |-> -1]
          [] t = "Infinity" -> [finite |-> FALSE, nan |-> FALSE, n |-> 0]
          [] OTHER          -> [finite |-> FALSE, nan |-> TRUE,  n |-> 0]

parseNumber(value) ==
    IF Trim(value) = ""
    THEN 0
    ELSE LET n == Number(value)
         IN  IF n.finite THEN n.n ELSE 0

\* a number as the panel field holds it: radius in its own unit
fieldValue(field, n) ==
    IF field = "radius" THEN n * OneInRadiusUnits ELSE n

\* the label `P${id}`
defaultLabel(id) == "P" \o ToString(id)

\* A CSV text is the sequence of its lines, a line the sequence of the
\* cells its commas separate; the empty text is one line of one empty cell.
EmptyText == << <<"">> >>

FullHeader    == <<"label", "length", "width", "radius", "angleDeg">>
MixedHeader   == <<"AngleDeg", " Radius ", "WIDTH", "length", "label">>
NoLabelHeader == <<"length", "width", "radius", "angleDeg">>
NoLengthHeader == <<"label", "width", "radius", "angleDeg">>
NoWidthHeader == <<"label", "length", "radius", "angleDeg">>
NoRadiusHeader == <<"label", "length", "width", "angleDeg">>
NoAngleHeader == <<"label", "length", "width", "radius">>

Headers ==
    { FullHeader, MixedHeader, NoLabelHeader, NoLengthHeader, NoWidthHeader,
      NoRadiusHeader, NoAngleHeader }

BlankRow == <<" ">>
RowP     == <<" p ", "2", "1", "0", "1">>
RowQ     == <<"q", "x", "Infinity", " 3 ", "-1">>
ShortRow == <<"r", "2">>

Bodies ==
    { <<>>, <<BlankRow>>, <<BlankRow, RowP>>, <<RowQ, BlankRow, ShortRow>> }

CsvTexts ==
    { EmptyText, <<BlankRow, <<"">>>>, <<BlankRow, FullHeader, RowP, <<"">>>> }
        \cup { <<h>> \o b : h \in Headers, b \in Bodies }

\* !line.trim()
IsBlankLine(line) == Len(line) = 1 /\ Trim(line[1]) = ""

\* csvText.trim().split(/\r?\n/), and no line when the trimmed text is empty
csvLines(text) ==
    LET inked == { k \in 1..Len(text) : ~IsBlankLine(text[k]) }
        first == CHOOSE k \in inked : \A j \in inked : k <= j
        last  == CHOOSE k \in inked : \A j \in inked : j <= k
    IN  IF inked = {} THEN <<>> ELSE SubSeq(text, first, last)

csvHeader(lines) ==
    [k \in 1..Len(lines[1]) |-> ToLowerCase(Trim(lines[1][k]))]

\* Array.prototype.indexOf, zero-based
indexOf(arr, x) ==
    LET at == { k \in 1..Len(arr) : arr[k] = x }
    IN  IF at = {} THEN -1 ELSE (CHOOSE k \in at : \A j \in at : k <= j) - 1

csvIdx(header) ==
    [ label    |-> indexOf(header, "label"),
      length   |-> indexOf(header, "length"),
      width    |-> indexOf(header, "width"),
      radius   |-> indexOf(header, "radius"),
      angleDeg |-> indexOf(header, "angledeg") ]

\* the keys whose lower-cased name is a property of idx holding -1; a name
\* idx has no property for reads as undefined, which is not -1
requiredMissing(idx) ==
    { key \in {"label", "length", "width", "radius", "angleDeg"} :
        /\ ToLowerCase(key) \in DOMAIN idx
        /\ idx[ToLowerCase(key)] = -1 }

\* cols[at] ?? ""
cellAt(cols, at) == IF at + 1 <= Len(cols) THEN cols[at + 1] ELSE ""

csvPanel(cols, idx, localId) ==
    [ id       |-> localId,
      label    |-> IF idx.label >= 0
                   THEN Trim(cellAt(cols, idx.label))
                   ELSE defaultLabel(localId),
      length   |-> IF idx.length >= 0
                   THEN parseNumber(cellAt(cols, idx.length)) ELSE 0,
      width    |-> IF idx.width >= 0
                   THEN parseNumber(cellAt(cols, idx.width)) ELSE 0,
      radius   |-> IF idx.radius >= 0
                   THEN fieldValue("radius",
                                   parseNumber(cellAt(cols, idx.radius)))
                   ELSE 0,
      angleDeg |-> IF idx.angleDeg >= 0
                   THEN parseNumber(cellAt(cols, idx.angleDeg)) ELSE 0 ]

\* the loop over the data lines: newPanels and localId after line k + 1
csvLoop(lines, idx, firstId) ==
    LET loop[k \in 0..(Len(lines) - 1)] ==
            IF k = 0
            THEN [newPanels |-> <<>>, localId |-> firstId]
            ELSE LET before == loop[k - 1]
                     cols   == lines[k + 1]
                 IN  IF IsBlankLine(cols)
                     THEN before
                     ELSE [ newPanels |->
                                Append(before.newPanels,
                                       csvPanel(cols, idx, before.localId)),
                            localId |-> before.localId + 1 ]
    IN  loop[Len(lines) - 1]

\* what the edit boxes of a row are made to hold
UpdateInputs == { <<"label", " p ">>, <<"length", " 3 ">> }

\* the page as first rendered
AppInit ==
    /\ pc = "app"
    /\ panels =
         << [ id |-> 1, label |-> "P1", length |-> 127, width |-> 24,
              radius |-> fieldValue("radius", 91), angleDeg |-> 30 ],
            [ id |-> 2, label |-> "P2", length |-> 127, width |-> 20,
              radius |-> fieldValue("radius", 91), angleDeg |-> 45 ] >>
    /\ nextId = 3
    /\ csvText = EmptyText
    /\ palletCount = 4
    /\ sortedPanels = <<>>
    /\ resorted = <<>>
    /\ rows = <<>>
    /\ byLength = <<>>
    /\ baseSize = 0
    /\ remainder = 0
    /\ index = 0
    /\ i = 0
    /\ buckets = <<>>
    /\ pallets = <<>>

updatePanel(id, field, value) ==
    /\ pc = "app"
    /\ panels' =
         [ k \in 1..Len(panels) |->
             IF panels[k].id = id
             THEN [ panels[k] EXCEPT
                      ![field] = IF field = "label"
                                 THEN value
                                 ELSE fieldValue(field, parseNumber(value)) ]
             ELSE panels[k] ]
    /\ UNCHANGED <<pc, sortVars, groupVars, appVars>>

\* addPanel with the counter left where it was
addPanelSameId ==
    /\ pc = "app"
    /\ nextId < MaxNextId
    /\ panels' =
         Append(panels,
                [ id |-> nextId, label |-> defaultLabel(nextId), length |-> 0,
                  width |-> 0, radius |-> 0, angleDeg |-> 0 ])
    /\ UNCHANGED <<pc, sortVars, groupVars, appVars>>

addPanel ==
    /\ pc = "app"
    /\ nextId < MaxNextId
    /\ panels' =
         Append(panels,
                [ id |-> nextId, label |-> defaultLabel(nextId), length |-> 0,
                  width |-> 0, radius |-> 0, angleDeg |-> 0 ])
    /\ nextId' = nextId + 1
    /\ UNCHANGED <<pc, sortVars, groupVars, csvText>>

removePanel(id) ==
    /\ pc = "app"
    /\ panels' = SelectSeq(panels, LAMBDA p : p.id # id)
    /\ UNCHANGED <<pc, sortVars, groupVars, appVars>>

setCsvText(text) ==
    /\ pc = "app"
    /\ csvText' = text
    /\ UNCHANGED <<pc, panels, sortVars, groupVars, nextId>>

handleCsvPaste ==
    /\ pc = "app"
    /\ LET lines == csvLines(csvText)
       IN  IF Len(lines) = 0
           THEN UNCHANGED <<panels, nextId>>
           ELSE LET idx == csvIdx(csvHeader(lines))
                    out == csvLoop(lines, idx, nextId)
                IN  IF requiredMissing(idx) # {}
                    THEN UNCHANGED <<panels, nextId>>
                    ELSE /\ out.localId <= MaxNextId
                         /\ IF Len(out.newPanels) = 0
                            THEN UNCHANGED <<panels, nextId>>
                            ELSE /\ panels' = out.newPanels
                                 /\ nextId' = out.localId
    /\ UNCHANGED <<pc, sortVars, groupVars, csvText>>

AppNext ==
    \/ \E k \in 1..Len(panels), input \in UpdateInputs :
         updatePanel(panels[k].id, input[1], input[2])
    \/ addPanel
    \/ \E k \in 1..Len(panels) : removePanel(panels[k].id)
    \/ \E text \in CsvTexts : setCsvText(text)
    \/ handleCsvPaste

AppSpec == AppInit /\ [][AppNext]_vars

\* ------------------------------------------------------------------------
\* Helpers of the properties
\* ------------------------------------------------------------------------

\* how often x occurs in s
Count(s, x) == Cardinality({ k \in 1..Len(s) : s[k] = x })

\* t holds the elements of s, each as often as s does
IsPermutation(s, t) ==
    /\ Len(s) = Len(t)
    /\ \A x \in Range(s) \cup Range(t) : Count(s, x) = Count(t, x)

\* every reordering of the sequence s
Orderings(s) ==
    { [k \in 1..Len(s) |-> s[f[k]]] : f \in Permutations(1..Len(s)) }

\* comparisons of curvature scores
ScoreLess(p, q) ==
    LET a == computeCurvatureScore(p)
        b == computeCurvatureScore(q)
    IN  a.num * b.den < b.num * a.den

ScoreEqual(p, q) ==
    LET a == computeCurvatureScore(p)
        b == computeCurvatureScore(q)
    IN  a.num * b.den = b.num * a.den

\* p may stand directly below q in a stack
StackOrdered(p, q) ==
    \/ ScoreLess(p, q)
    \/ ScoreEqual(p, q) /\ computeArea(p) > computeArea(q)
    \/ ScoreEqual(p, q) /\ computeArea(p) = computeArea(q) /\ p.id <= q.id

DistinctIds(s) == \A j, k \in 1..Len(s) : j # k => s[j].id # s[k].id

sortDone == pc \in {"sorted", "resorted", "exported"}

\* ------------------------------------------------------------------------
\* C1
\* ------------------------------------------------------------------------

\* C1: in the result of sortPanelsForStack every adjacent pair (p, q), p before
\* q, has score(p) < score(q), or equal scores and area(p) > area(q), or equal
\* scores and areas and p.id <= q.id.
C1_StackOrder ==
    sortDone =>
        \A k \in 1..(Len(sortedPanels) - 1) :
            StackOrdered(sortedPanels[k], sortedPanels[k + 1])

\* a sorted list of three whose input was not in stack order, with one pair
\* ordered by score and one pair ordered by area
C1_Witness ==
    /\ pc = "sorted"
    /\ Len(sortedPanels) = 3
    /\ sortedPanels # panels
    /\ ScoreEqual(sortedPanels[1], sortedPanels[2])
    /\ computeArea(sortedPanels[1]) > computeArea(sortedPanels[2])
    /\ ScoreLess(sortedPanels[2], sortedPanels[3])

\* ------------------------------------------------------------------------
\* C2
\* ------------------------------------------------------------------------

\* C2: the result of sortPanelsForStack is a permutation of its input: same
\* length, no panel dropped, none duplicated; the empty list gives the empty
\* list.
C2_Permutation ==
    sortDone =>
        /\ IsPermutation(panels, sortedPanels)
        /\ (panels = <<>> => sortedPanels = <<>>)

\* a list of three that the sorter did reorder
C2_Witness ==
    /\ pc = "sorted"
    /\ Len(panels) = 3
    /\ sortedPanels # panels

\* ------------------------------------------------------------------------
\* C3
\* ------------------------------------------------------------------------

\* C3: for panels with pairwise distinct ids, sortPanelsForStack gives the
\* same sequence for every ordering of the input; two panels with equal score
\* and equal area appear in ascending id order.
C3_OrderIndependent ==
    (pc = "sorted" /\ DistinctIds(panels)) =>
        /\ \A l \in Orderings(panels) : sortPanelsForStack(l) = sortedPanels
        /\ \A j, k \in 1..Len(sortedPanels) :
              ( /\ j < k
                /\ ScoreEqual(sortedPanels[j], sortedPanels[k])
                /\ computeArea(sortedPanels[j]) = computeArea(sortedPanels[k]) )
              => sortedPanels[j].id < sortedPanels[k].id

\* two panels of equal score and area given with the larger id first
C3_Witness ==
    /\ pc = "sorted"
    /\ Len(panels) >= 2
    /\ ScoreEqual(panels[1], panels[2])
    /\ computeArea(panels[1]) = computeArea(panels[2])
    /\ panels[1].length # panels[2].length
    /\ panels[1].id > panels[2].id

\* ------------------------------------------------------------------------
\* C4
\* ------------------------------------------------------------------------

\* C4: sortPanelsForStack is idempotent: sorting its result gives that result.
C4_Idempotent ==
    pc = "resorted" => resorted = sortedPanels

\* a list of three, reordered by the first sort, sorted again
C4_Witness ==
    /\ pc = "resorted"
    /\ Len(panels) = 3
    /\ sortedPanels # panels

\* ------------------------------------------------------------------------
\* C5
\* ------------------------------------------------------------------------

groupRunning == pc \in {"loop", "grouped"}

\* C5: groupPanelsIntoPallets returns no pallets whenever palletCount <= 0 or
\* the panel list is empty, whatever the other argument is.
C5_EmptyResult ==
    (pc = "grouped" /\ (palletCount <= 0 \/ Len(panels) = 0)) => pallets = <<>>

\* a call with a negative palletCount and three panels has returned
C5_Witness ==
    /\ pc = "grouped"
    /\ palletCount < 0
    /\ Len(panels) = 3

\* ------------------------------------------------------------------------
\* C6
\* ------------------------------------------------------------------------

\* C6: for total > 0 panels and palletCount > 0 the buckets are built in
\* order with sizes base + 1 for the first `total mod palletCount` of them and
\* base = floor(total / palletCount) for the rest, palletCount buckets in
\* all; any two sizes differ by at most 1.
C6_BucketSizes ==
    (groupRunning /\ palletCount > 0 /\ Len(panels) > 0) =>
        LET total == Len(panels)
            base  == total \div palletCount
            extra == total % palletCount
        IN  /\ \A k \in 1..Len(buckets) :
                  Len(buckets[k]) = IF k <= extra THEN base + 1 ELSE base
            /\ \A j, k \in 1..Len(buckets) :
                  Len(buckets[j]) - Len(buckets[k]) \in {-1, 0, 1}
            /\ Len(buckets) = i
            /\ (pc = "grouped" => Len(buckets) = palletCount)

\* three panels in two pallets: the sizes are 2 and 1, in that order
C6_Witness ==
    /\ pc = "grouped"
    /\ Len(panels) = 3
    /\ palletCount = 2
    /\ Len(buckets) = 2
    /\ Len(buckets[1]) = 2
    /\ Len(buckets[2]) = 1

\* ------------------------------------------------------------------------
\* C7
\* ------------------------------------------------------------------------

\* C7: the longest panels land in the earliest pallets: for pallets j < k,
\* every panel of pallet j is at least as long as every panel of pallet k.
C7_LongestFirst ==
    pc = "grouped" =>
        \A j, k \in 1..Len(pallets) :
            j < k =>
                \A p \in Range(pallets[j]), q \in Range(pallets[k]) :
                    p.length >= q.length

\* an input that was not longest-first, split over pallets of different lengths
C7_Witness ==
    /\ pc = "grouped"
    /\ Len(pallets) >= 2
    /\ byLength # panels
    /\ \E p \in Range(pallets[1]), q \in Range(pallets[2]) : p.length > q.length

\* ------------------------------------------------------------------------
\* C8
\* ------------------------------------------------------------------------

\* C8: every pallet is in the stack sorter's order, it equals
\* sortPanelsForStack of itself; with palletCount = 1 and a non-empty input
\* the result is the single pallet sortPanelsForStack(panels).
C8_PalletsStackSorted ==
    groupRunning =>
        /\ \A k \in 1..Len(pallets) :
              /\ pallets[k] = sortPanelsForStack(pallets[k])
              /\ \A m \in 1..(Len(pallets[k]) - 1) :
                    StackOrdered(pallets[k][m], pallets[k][m + 1])
        /\ (pc = "grouped" /\ palletCount = 1 /\ Len(panels) > 0)
              => pallets = <<sortPanelsForStack(panels)>>

\* one pallet of three panels whose stack order is not their order by length
C8_Witness ==
    /\ pc = "grouped"
    /\ palletCount = 1
    /\ Len(panels) = 3
    /\ Len(pallets) = 1
    /\ pallets[1] # byLength

\* ------------------------------------------------------------------------
\* C9
\* ------------------------------------------------------------------------

\* C9: no returned pallet is empty; for total > 0 and palletCount > 0 the
\* result has min(palletCount, total) pallets, fewer than palletCount exactly
\* when palletCount > total.
C9_NoEmptyPallet ==
    /\ groupRunning => \A k \in 1..Len(pallets) : Len(pallets[k]) > 0
    /\ (pc = "grouped" /\ palletCount > 0 /\ Len(panels) > 0) =>
          /\ Len(pallets) = Min(palletCount, Len(panels))
          /\ (Len(pallets) < palletCount <=> palletCount > Len(panels))

\* more pallets asked for than there are panels: empty slices were cut
C9_Witness ==
    /\ pc = "grouped"
    /\ Len(panels) = 2
    /\ palletCount > 2
    /\ Len(pallets) = 2
    /\ \E k \in 1..Len(buckets) : buckets[k] = <<>>

\* ------------------------------------------------------------------------
\* C10
\* ------------------------------------------------------------------------

Max(a, b) == IF a > b THEN a ELSE b

FracEqual(a, b) == a.num * b.den = b.num * a.den

\* (|angleDeg| * pi / 180) / divisor
BendOver(angleDeg, divisor) ==
    Frac(Abs(angleDeg) * PiNum, 180 * PiDen * divisor)

\* C10 as claimed: the score is (|angleDeg| * pi/180) / max(|radius|, eps) for
\* every radius, also a nonzero one smaller than eps.
C10_FloorForEveryRadius ==
    pc = "exported" =>
        \A k \in 1..Len(rows) :
            FracEqual(rows[k].curvatureScore,
                      BendOver(rows[k].angleDeg, Max(Abs(rows[k].radius), Eps)))

\* C10 amended: the score is (|angleDeg| * pi/180) / |radius| for every nonzero
\* radius, negative ones and ones smaller than eps included, and
\* (|angleDeg| * pi/180) / eps for radius zero; it is the claimed
\* (|angleDeg| * pi/180) / max(|radius|, eps) when radius = 0 or |radius| >= eps.
C10_FloorForZeroRadius ==
    pc = "exported" =>
        \A k \in 1..Len(rows) :
            LET r == rows[k].radius
                a == rows[k].angleDeg
            IN  /\ FracEqual(rows[k].curvatureScore,
                             BendOver(a, IF r = 0 THEN Eps ELSE Abs(r)))
                /\ (r = 0 \/ Abs(r) >= Eps) =>
                      FracEqual(rows[k].curvatureScore,
                                BendOver(a, Max(Abs(r), Eps)))

\* rows for a zero radius, a negative radius and a nonzero radius below eps,
\* each with a nonzero angle
C10_Witness ==
    /\ pc = "exported"
    /\ \E k \in 1..Len(rows) : rows[k].radius = 0 /\ rows[k].angleDeg # 0
    /\ \E k \in 1..Len(rows) : rows[k].radius < -Eps /\ rows[k].angleDeg # 0
    /\ \E k \in 1..Len(rows) :
          /\ rows[k].radius # 0
          /\ Abs(rows[k].radius) < Eps
          /\ rows[k].angleDeg # 0

\* ------------------------------------------------------------------------
\* C11
\* ------------------------------------------------------------------------

C13_InputNotMutated ==
    [][ /\ panels' = panels
        /\ (pc = "loop" => byLength' = byLength) ]_vars

\* both sorts of groupPanelsIntoPallets reordered their copies of the input
C13_Witness ==
    /\ pc = "grouped"
    /\ Len(panels) = 3
    /\ byLength # panels
    /\ Len(pallets) = 1
    /\ pallets[1] # byLength
    /\ pallets[1] # panels

\* ------------------------------------------------------------------------
\* C14
\* ------------------------------------------------------------------------

\* the place of panel p in the sequence s that holds it once
IndexIn(s, p) == CHOOSE k \in 1..Len(s) : s[k] = p

\* the pallet of the result that holds panel p
PalletOf(p) == CHOOSE m \in 1..Len(pallets) : p \in Range(pallets[m])

\* C14: step 1 sorts by length descending and leaves panels of equal length in
\* their input order: of two panels of equal length, the one earlier in the
\* input is never in a later pallet than the other.
C14_EqualLengthsKeepInputOrder ==
    (pc = "grouped" /\ pallets # <<>> /\ DistinctIds(panels)) =>
        /\ \A j, k \in 1..Len(byLength) :
              j < k => byLength[j].length >= byLength[k].length
        /\ \A j, k \in 1..Len(panels) :
              (j < k /\ panels[j].length = panels[k].length) =>
                  /\ IndexIn(byLength, panels[j]) < IndexIn(byLength, panels[k])
                  /\ PalletOf(panels[j]) <= PalletOf(panels[k])

\* two panels of equal length, the earlier one with the larger id, that a
\* bucket boundary separates
C14_Witness ==
    /\ pc = "grouped"
    /\ Len(pallets) >= 2
    /\ \E j, k \in 1..Len(panels) :
          /\ j < k
          /\ panels[j].length = panels[k].length
          /\ panels[j].id > panels[k].id
          /\ PalletOf(panels[j]) < PalletOf(panels[k])

\* ------------------------------------------------------------------------
\* C15
\* ------------------------------------------------------------------------

\* the angles and radii a row's panel is compared with
TestAngles == {-2, -1, 0, 1, 2}
TestRadii  == {-4, -2, -1, 0, 1, 2, 4}

\* a <= b on fractions with positive denominators
FracLeq(a, b) == a.num * b.den <= b.num * a.den

WithAngle(p, a)  == [p EXCEPT !.angleDeg = a]
WithRadius(p, r) == [p EXCEPT !.radius = r]

\* the parts of C15 that do not compare two radii: a larger |angleDeg| never
\* scores lower, the sign of radius and angleDeg does not matter, and no score
\* is negative
MonotoneInAngle(k) ==
    LET p     == sortedPanels[k]
        score == rows[k].curvatureScore
    IN  /\ \A a \in TestAngles :
              Abs(a) >= Abs(p.angleDeg) =>
                  FracLeq(score, computeCurvatureScore(WithAngle(p, a)))
        /\ FracEqual(score, computeCurvatureScore(
                                [p EXCEPT !.radius = Abs(p.radius),
                                          !.angleDeg = Abs(p.angleDeg)]))
        /\ FracEqual(score, computeCurvatureScore(
                                [p EXCEPT !.radius = -Abs(p.radius),
                                          !.angleDeg = -Abs(p.angleDeg)]))
        /\ score.num >= 0 /\ score.den > 0

\* C15 as claimed: the score never falls when |angleDeg| grows, never rises
\* when |radius| grows, whatever the two radii are, depends on absolute
\* values only and is never negative.
C15_MonotoneForEveryRadius ==
    pc = "exported" =>
        \A k \in 1..Len(rows) :
            /\ MonotoneInAngle(k)
            /\ \A r \in TestRadii :
                  Abs(r) >= Abs(sortedPanels[k].radius) =>
                      FracLeq(computeCurvatureScore(WithRadius(sortedPanels[k], r)),
                              rows[k].curvatureScore)

\* C15 amended: as claimed, but a larger |radius| is only known not to score
\* higher when the smaller radius is nonzero or the larger one is at least
\* eps in absolute value: a zero radius scores as the radius eps, below every
\* nonzero radius smaller than eps.
C15_MonotoneAboveFloor ==
    pc = "exported" =>
        \A k \in 1..Len(rows) :
            /\ MonotoneInAngle(k)
            /\ \A r \in TestRadii :
                  ( /\ Abs(r) >= Abs(sortedPanels[k].radius)
                    /\ (sortedPanels[k].radius # 0 \/ Abs(r) >= Eps) ) =>
                      FracLeq(computeCurvatureScore(WithRadius(sortedPanels[k], r)),
                              rows[k].curvatureScore)
            /\ sortedPanels[k].radius = 0 =>
                  FracEqual(rows[k].curvatureScore,
                            computeCurvatureScore(WithRadius(sortedPanels[k], Eps)))

\* rows with a nonzero angle for a zero radius, a radius below eps and a
\* radius above eps
C15_Witness ==
    /\ pc = "exported"
    /\ Len(rows) = 3
    /\ \A k \in 1..Len(rows) : rows[k].angleDeg # 0
    /\ \E k \in 1..Len(rows) : rows[k].radius = 0
    /\ \E k \in 1..Len(rows) : rows[k].radius # 0 /\ Abs(rows[k].radius) < Eps
    /\ \E k \in 1..Len(rows) : Abs(rows[k].radius) > Eps

\* ------------------------------------------------------------------------
\* C16
\* ------------------------------------------------------------------------

\* the pallets laid end to end
Concat(seqs) ==
    LET upTo[k \in 0..Len(seqs)] ==
            IF k = 0 THEN <<>> ELSE upTo[k - 1] \o seqs[k]
    IN  upTo[Len(seqs)]

\* the sum of the lengths of the pallets
TotalSize(seqs) ==
    LET upTo[k \in 0..Len(seqs)] ==
            IF k = 0 THEN 0 ELSE upTo[k - 1] + Len(seqs[k])
    IN  upTo[Len(seqs)]

\* C16: for a non-empty input and palletCount > 0 the pallets, laid end to
\* end, are a permutation of the input: every panel is in exactly one pallet,
\* once, and the pallet sizes sum to the length of the input.
C16_PanelsConserved ==
    (pc = "grouped" /\ Len(panels) > 0 /\ palletCount > 0) =>
        /\ IsPermutation(panels, Concat(pallets))
        /\ TotalSize(pallets) = Len(panels)
        /\ \A p \in Range(panels) :
              Cardinality({ m \in 1..Len(pallets) : p \in Range(pallets[m]) }) = 1

\* three panels over two pallets, not in the order they were given in
C16_Witness ==
    /\ pc = "grouped"
    /\ Len(panels) = 3
    /\ palletCount = 2
    /\ Len(pallets) = 2
    /\ Concat(pallets) # panels

\* ------------------------------------------------------------------------
\* C17
\* ------------------------------------------------------------------------

DistinctLengths(s) == \A j, k \in 1..Len(s) : j # k => s[j].length # s[k].length

\* two panels of equal length lie in different pallets of the result
EqualLengthsStraddle(result) ==
    \E j, k \in 1..Len(result) :
        /\ j < k
        /\ \E p \in Range(result[j]), q \in Range(result[k]) : p.length = q.length

\* the list in ascending id order: the one representative of its orderings
IdAscending(s) == \A j, k \in 1..Len(s) : j < k => s[j].id < s[k].id

\* C17: for panels with pairwise distinct ids and pairwise distinct lengths
\* groupPanelsIntoPallets returns the same pallets for every ordering of the
\* input; whenever an ordering of the input gives other pallets, panels of
\* equal length straddle a bucket boundary, in the one result and in the
\* other.  Every list is an ordering of its id-ascending one, so the
\* orderings are compared at the id-ascending lists.
C17_OrderMattersOnlyForEqualLengths ==
    (pc = "grouped" /\ palletCount > 0 /\ IdAscending(panels)) =>
        /\ pallets = groupPanelsIntoPallets(panels, palletCount)
        /\ \A l \in Orderings(panels) :
              LET other == groupPanelsIntoPallets(l, palletCount)
              IN  /\ DistinctLengths(panels) => other = pallets
                  /\ other # pallets =>
                        /\ EqualLengthsStraddle(pallets)
                        /\ EqualLengthsStraddle(other)

\* three panels of three lengths, not given longest first, over two pallets
C17_Witness ==
    /\ pc = "grouped"
    /\ Len(panels) = 3
    /\ IdAscending(panels)
    /\ DistinctLengths(panels)
    /\ byLength # panels
    /\ palletCount = 2
    /\ Len(pallets) = 2


\* ------------------------------------------------------------------------
\* C12  From the first render on, under addPanel, removePanel, updatePanel
\* and the CSV import: the ids in the list are pairwise distinct and each
\* is below nextId; nextId never decreases; and every step leaves an id on
\* the panel that had it or takes it fresh from nextId upward, so that an id
\* that was ever in the list (all of them below nextId) is never handed out
\* again.
\* ------------------------------------------------------------------------
IdsOf(list) == { list[k].id : k \in 1..Len(list) }

C12_IdsNeverReused ==
    /\ [](/\ DistinctIds(panels)
          /\ \A id \in IdsOf(panels) : id < nextId)
    /\ [][ /\ nextId' >= nextId
           /\ \A id \in IdsOf(panels') : id \in IdsOf(panels) \/ id >= nextId
         ]_vars

\* an imported row (id 3) followed by an added panel (id 4) whose label was
\* then edited
C12_Witness ==
    /\ pc = "app"
    /\ nextId = 5
    /\ Len(panels) = 2
    /\ panels[1].id = 3 /\ panels[1].label = "p"
    /\ panels[2].id = 4 /\ panels[2].label = " p " /\ panels[2].width = 0

\* ------------------------------------------------------------------------
\* C18  A CSV import on a blank text, on a header that lacks one of label,
\* length, width, radius, angleDeg, or on a text with no non-blank data row
\* leaves panels and nextId as they were; any other import replaces the
\* list by one panel per non-blank data row, in row order, with consecutive
\* ids from the old nextId, and adds the number of rows to nextId.
\* ------------------------------------------------------------------------
RequiredColumns == {"label", "length", "width", "radius", "angleDeg"}

\* the lines with something on them: the header, then the data rows
InkedLines(text) == SelectSeq(text, LAMBDA line : ~IsBlankLine(line))

HeaderLacks(text, column) ==
    \A k \in 1..Len(InkedLines(text)[1]) :
        ToLowerCase(Trim(InkedLines(text)[1][k])) # ToLowerCase(column)

ImportRejected(text) ==
    \/ InkedLines(text) = <<>>
    \/ \E column \in RequiredColumns : HeaderLacks(text, column)
    \/ Len(InkedLines(text)) = 1

ImportedAsStated(text) ==
    LET dataRows == Tail(InkedLines(text))
    IN  /\ Len(panels') = Len(dataRows)
        /\ \A k \in 1..Len(dataRows) :
             /\ panels'[k].id = nextId + k - 1
             /\ panels'[k].label =
                  Trim(cellAt(dataRows[k],
                              indexOf(csvHeader(InkedLines(text)), "label")))
        /\ nextId' = nextId + Len(dataRows)

C18_RejectedImportChangesNothing ==
    [][ handleCsvPaste =>
          IF ImportRejected(csvText)
          THEN panels' = panels /\ nextId' = nextId
          ELSE ImportedAsStated(csvText) ]_vars

\* the same, with a header that lacks only angleDeg counted as complete
C18_ExceptMissingAngleDeg ==
    [][ handleCsvPaste =>
          IF ImportRejected(csvText)
             /\ (InkedLines(csvText) = <<>>
                 \/ Len(InkedLines(csvText)) = 1
                 \/ \E column \in RequiredColumns \ {"angleDeg"} :
                      HeaderLacks(csvText, column))
          THEN panels' = panels /\ nextId' = nextId
          ELSE ImportedAsStated(csvText) ]_vars
====
